---- MODULE Spec2Model ----
(***************************************************************************)
(* Model of cachetclient.v1.incidents: the Incident resource (a mapping of *)
(* field data with property getters and setters) and the IncidentManager   *)
(* (create / update / list / get / count / delete against the paginated    *)
(* JSON endpoint "incidents").                                             *)
(*                                                                         *)
(* Python values are modelled as tagged strings so that the integer 1 and  *)
(* the boolean True are different values: "None", "True", "False", "i0",   *)
(* "i1", "i7", ... for integers, any other string for a str.  Unset marks  *)
(* a keyword argument the caller did not pass.                             *)
(***************************************************************************)
EXTENDS Integers, Sequences, FiniteSets, TLC

VARIABLES server, wire, last, res, gen, gone

vars == <<server, wire, last, res, gen, gone>>

\* ------------------------------------------------------------------ bounds

\* Largest incident id the server hands out under Spec (field-level claims).
MaxId == 1
\* Largest incident id the server hands out under SpecList (lifecycle, listing).
MaxListId == 3
\* Largest page number the listing generator requests before it is cut off.
MaxPage == 4

\* ------------------------------------------------------------ Python values

None == "None"
PyTrue == "True"
PyFalse == "False"
Unset == "<unset>"

\* Python truthiness of a value (the test of `1 if x else 0`).
Truthy(v) == v \notin {None, PyFalse, "i0", ""}

\* Python's == between two values: True == 1 and False == 0.
PyEq(a, b) ==
  \/ a = b
  \/ {a, b} = {PyTrue, "i1"}
  \/ {a, b} = {PyFalse, "i0"}

\* The Python bool a comparison yields.
PyBool(p) == IF p THEN PyTrue ELSE PyFalse

\* d1 updated with d2 (dict.update): keys of d2 win.
DictMerge(d1, d2) ==
  [k \in (DOMAIN d1) \cup (DOMAIN d2) |-> IF k \in DOMAIN d2 THEN d2[k] ELSE d1[k]]

\* ------------------------------------------------- IncidentManager (client)

\* IncidentManager.path
path == "incidents"

\* The keyword parameters of create() and update().
ArgNames ==
  {"name", "message", "status", "visible", "component_id", "component_status",
   "notify", "created_at", "template", "template_vars"}

\* The required parameters update() tests.
RequiredNames == {"name", "message", "status", "visible"}

\* Variant of UpdateDefault: notify defaults to None like its neighbours.
UpdateDefaultAllNone(k) == None

\* Default of a keyword parameter of update(): None, except notify = True.
UpdateDefault(k) == IF k = "notify" THEN PyTrue ELSE None

\* Default of a keyword parameter of create(): visible = True, notify = True,
\* the optional ones None (name, message, status have no default and are passed).
CreateDefault(k) == IF k \in {"notify", "visible"} THEN PyTrue ELSE None

\* The value update() sees for parameter k when called with keywords kw.
UpdateArg(kw, k) == IF kw[k] = Unset THEN UpdateDefault(k) ELSE kw[k]

\* The value create() sees for parameter k when called with keywords kw.
CreateArg(kw, k) == IF kw[k] = Unset THEN CreateDefault(k) ELSE kw[k]

\* Variant of CreateData: the template slug is sent under 'vars' as well.
CreateDataMiskeyed(kw) ==
  [name             |-> CreateArg(kw, "name"),
   message          |-> CreateArg(kw, "message"),
   status           |-> CreateArg(kw, "status"),
   visible          |-> IF Truthy(CreateArg(kw, "visible")) THEN "i1" ELSE "i0",
   component_id     |-> CreateArg(kw, "component_id"),
   component_status |-> CreateArg(kw, "component_status"),
   notify           |-> IF Truthy(CreateArg(kw, "notify")) THEN "i1" ELSE "i0",
   created_at       |-> CreateArg(kw, "created_at"),
   template         |-> CreateArg(kw, "template"),
   vars             |-> CreateArg(kw, "template")]

\* The dict create() hands to _create: every key, None values included.
CreateData(kw) ==
  [name             |-> CreateArg(kw, "name"),
   message          |-> CreateArg(kw, "message"),
   status           |-> CreateArg(kw, "status"),
   visible          |-> IF Truthy(CreateArg(kw, "visible")) THEN "i1" ELSE "i0",
   component_id     |-> CreateArg(kw, "component_id"),
   component_status |-> CreateArg(kw, "component_status"),
   notify           |-> IF Truthy(CreateArg(kw, "notify")) THEN "i1" ELSE "i0",
   created_at       |-> CreateArg(kw, "created_at"),
   template         |-> CreateArg(kw, "template"),
   vars             |-> CreateArg(kw, "template_vars")]

\* Variant of UpdateInvalid: the guard forgets visible.
UpdateInvalidNoVisible(kw) ==
  \/ UpdateArg(kw, "name") = None
  \/ UpdateArg(kw, "message") = None
  \/ UpdateArg(kw, "status") = None

\* update()'s guard: name, message, status or visible is None.
UpdateInvalid(kw) ==
  \/ UpdateArg(kw, "name") = None
  \/ UpdateArg(kw, "message") = None
  \/ UpdateArg(kw, "status") = None
  \/ UpdateArg(kw, "visible") = None

\* The exception update() raises when its guard fires.
UpdateGuardError == "ValueError"

\* The keyword arguments update() hands to _build_data_dict.
UpdateData(kw) ==
  [name             |-> UpdateArg(kw, "name"),
   message          |-> UpdateArg(kw, "message"),
   status           |-> UpdateArg(kw, "status"),
   visible          |-> IF Truthy(UpdateArg(kw, "visible")) THEN "i1" ELSE "i0",
   component_id     |-> UpdateArg(kw, "component_id"),
   component_status |-> UpdateArg(kw, "component_status"),
   notify           |-> IF Truthy(UpdateArg(kw, "notify")) THEN "i1" ELSE "i0",
   created_at       |-> UpdateArg(kw, "created_at"),
   template         |-> UpdateArg(kw, "template"),
   vars             |-> UpdateArg(kw, "template_vars")]

\* Manager._build_data_dict: the keyword arguments that are not None.
BuildDataDict(d) == [k \in {x \in DOMAIN d : d[x] # None} |-> d[k]]

\* The payload key that carries parameter k.
PayloadKey(k) == IF k = "template_vars" THEN "vars" ELSE k

\* Variant of ListParams: page and per_page change places.
ListParamsSwapped(page, per_page) ==
  [page     |-> IF per_page = 0 THEN 1 ELSE per_page,
   per_page |-> IF page = 0 THEN 1 ELSE page]

\* IncidentManager.list(page=1, per_page=1): the parameters it hands to
\* _list_paginated.
ListParams(page, per_page) ==
  [page     |-> IF page = 0 THEN 1 ELSE page,
   per_page |-> IF per_page = 0 THEN 1 ELSE per_page]

\* The incident id IncidentManager.delete hands to _delete.
DeleteTarget(incident_id) == incident_id

\* ------------------------------------------------------------ the server
\* The status-page service behind the HTTP client: an external collaborator.
\* It numbers incidents 1, 2, ... in creation order, never reuses an id,
\* stores the entity fields of the payloads it accepts and echoes them,
\* merges a PUT into the stored entity, and lists live incidents by id.

\* The fields of an incident the service stores and returns.
EntityFields == {"name", "message", "status", "visible", "notify", "component_id"}

NoBody == [k \in {} |-> None]

\* A row of the incidents table after its DELETE, and the body of a 404.
Tombstone == [live |-> FALSE, attrs |-> NoBody]
NoData == [id |-> 0, attrs |-> NoBody]

Exists(srv, id) == id \in 1..Len(srv) /\ srv[id].live

\* The part of a request body the service stores.
EntityPart(body) == [k \in (DOMAIN body) \cap EntityFields |-> body[k]]

\* POST incidents
ServerPost(srv, body) ==
  LET id    == Len(srv) + 1
      blank == [k \in EntityFields |-> None]
      attrs == DictMerge(blank, EntityPart(body))
  IN  [status |-> 200,
       server |-> Append(srv, [live |-> TRUE, attrs |-> attrs]),
       data   |-> [id |-> id, attrs |-> attrs]]

\* GET incidents/{id}
ServerGet(srv, id) ==
  IF Exists(srv, id)
  THEN [status |-> 200, server |-> srv, data |-> [id |-> id, attrs |-> srv[id].attrs]]
  ELSE [status |-> 404, server |-> srv, data |-> NoData]

\* PUT incidents/{id}
ServerPut(srv, id, body) ==
  IF Exists(srv, id)
  THEN LET attrs == DictMerge(srv[id].attrs, EntityPart(body))
       IN  [status |-> 200,
            server |-> [srv EXCEPT ![id] = [live |-> TRUE, attrs |-> attrs]],
            data   |-> [id |-> id, attrs |-> attrs]]
  ELSE [status |-> 404, server |-> srv, data |-> NoData]

\* DELETE incidents/{id}
ServerDelete(srv, id) ==
  IF Exists(srv, id)
  THEN [status |-> 204, server |-> [srv EXCEPT ![id] = Tombstone], data |-> NoData]
  ELSE [status |-> 404, server |-> srv, data |-> NoData]

\* The ids of the live incidents, in the order the service lists them.
RECURSIVE LiveIds(_, _)
LiveIds(srv, n) ==
  IF n = 0 THEN <<>>
  ELSE IF ~srv[n].live THEN LiveIds(srv, n - 1)
       ELSE Append(LiveIds(srv, n - 1), n)

Min(a, b) == IF a < b THEN a ELSE b

\* ceil(total / per_page), at least 1 (the paginator's last page).
LastPage(total, per_page) ==
  IF total = 0 THEN 1 ELSE (total + per_page - 1) \div per_page

\* GET incidents?page=&per_page= : the pagination envelope.
ServerList(srv, page, per_page) ==
  LET live  == LiveIds(srv, Len(srv))
      total == Len(live)
      from  == (page - 1) * per_page + 1
      to    == Min(page * per_page, total)
  IN  [data         |-> IF from > to THEN <<>> ELSE SubSeq(live, from, to),
       total        |-> total,
       current_page |-> page,
       total_pages  |-> LastPage(total, per_page)]

\* ------------------------------------------------------ HTTP client, Manager

\* The error the HTTP client raises for a 404 response ("Raises:
\* requests.exception.HttpError: if incident do not exist").
NotFoundErr == "HttpError"

Request(method, id, body, page, per_page) ==
  [method |-> method, path |-> path, id |-> id, body |-> body,
   page |-> page, per_page |-> per_page]

\* Manager._create: POST the non-null fields.
CreateBody(data) == BuildDataDict(data)

\* Manager._count: GET with per_page = 1 and read meta.pagination.total.
CountRequest == Request("GET", 0, NoBody, 0, 1)

ManagerCount(srv) == ServerList(srv, 1, 1).total

\* ------------------------------------------------------------ Resource

\* Resource.get(key): the raw value of the field mapping, None when absent.
ResGet(r, key) == IF key \in DOMAIN r.attrs THEN r.attrs[key] ELSE None

\* The Incident property getters.
Getter(r, field) ==
  IF field = "visible" THEN PyBool(PyEq(ResGet(r, "visible"), "i1"))
  ELSE ResGet(r, field)

\* Variant of Setter: the notify setter writes the 'visible' key.
SetterWrongKey(r, field, value) ==
  [r EXCEPT !.attrs =
     DictMerge(r.attrs, [k \in {IF field = "notify" THEN "visible" ELSE field} |-> value])]

\* The Incident property setters: self._data[field] = value.
Setter(r, field, value) ==
  [r EXCEPT !.attrs = DictMerge(r.attrs, [k \in {field} |-> value])]

\* Resource.update(): manager.update(self.id, **self.attrs).
KwFromAttrs(r) == [k \in ArgNames |-> IF k \in DOMAIN r.attrs THEN r.attrs[k] ELSE Unset]

\* ------------------------------------------------------------ state

\* No keyword passed.
NoKw == [k \in ArgNames |-> Unset]

\* The record of the most recent call: what was called, with what, and how it
\* ended (count is -1 unless count() returned it; prev_count is the count the
\* call before this one returned, -1 if that was not a count()).
Outcome(op, id, ok, err, kw, count, field, value) ==
  [op |-> op, id |-> id, ok |-> ok, err |-> err, kw |-> kw, count |-> count,
   prev_count |-> last.count, field |-> field, value |-> value]

\* The listing generator before list() is called.
NoGen ==
  [state |-> "none", asked |-> <<0, 0>>, page |-> 0, per_page |-> 0, cur |-> 0,
   total_pages |-> 0, buf |-> <<>>, out |-> <<>>, dirty |-> FALSE]

\* The collection changes after list() was called: the listing, running or
\* drained, is no longer one of the collection as it is.
Touch(g, changed) ==
  IF changed /\ g.state # "none" THEN [g EXCEPT !.dirty = TRUE] ELSE g

Init ==
  /\ server = <<>>
  /\ wire = <<>>
  /\ last = [op |-> "init", id |-> 0, ok |-> TRUE, err |-> "", kw |-> NoKw,
             count |-> -1, prev_count |-> -1, field |-> "", value |-> ""]
  /\ res = NoData
  /\ gen = NoGen
  /\ gone = {}

\* ------------------------------------------------------------ operations

\* IncidentManager.create(**kw)
Create(kw, maxId) ==
  /\ Len(server) < maxId
  /\ LET body == CreateBody(CreateData(kw))
         r    == ServerPost(server, body)
     IN  /\ wire' = <<Request("POST", 0, body, 0, 0)>>
         /\ server' = r.server
         /\ res' = r.data
         /\ last' = Outcome("create", r.data.id, TRUE, "", kw, -1, "", "")
         /\ gen' = Touch(gen, TRUE)
  /\ UNCHANGED gone

\* IncidentManager.update(incident_id, **kw), called as `op`.
UpdateAs(op, incident_id, kw) ==
  IF UpdateInvalid(kw)
  THEN /\ wire' = <<>>
       /\ last' = Outcome(op, incident_id, FALSE, UpdateGuardError, kw, -1, "", "")
       /\ UNCHANGED <<server, res, gen, gone>>
  ELSE LET body == BuildDataDict(UpdateData(kw))
           r    == ServerPut(server, incident_id, body)
       IN  /\ wire' = <<Request("PUT", incident_id, body, 0, 0)>>
           /\ server' = r.server
           /\ res' = IF r.status = 200 THEN r.data ELSE res
           /\ last' = Outcome(op, incident_id, r.status = 200,
                              IF r.status = 200 THEN "" ELSE NotFoundErr, kw, -1, "", "")
           /\ gen' = Touch(gen, r.server # server)
           /\ UNCHANGED gone

Update(incident_id, kw) == UpdateAs("update", incident_id, kw)

\* IncidentManager.get(incident_id)
Get(incident_id) ==
  LET r == ServerGet(server, incident_id)
  IN  /\ wire' = <<Request("GET", incident_id, NoBody, 0, 0)>>
      /\ res' = IF r.status = 200 THEN r.data ELSE res
      /\ last' = Outcome("get", incident_id, r.status = 200,
                         IF r.status = 200 THEN "" ELSE NotFoundErr, NoKw, -1, "", "")
      /\ UNCHANGED <<server, gen, gone>>

\* IncidentManager.delete(incident_id), called as `op`.
DeleteAs(op, incident_id) ==
  LET target == DeleteTarget(incident_id)
      r      == ServerDelete(server, target)
  IN  /\ wire' = <<Request("DELETE", target, NoBody, 0, 0)>>
      /\ server' = r.server
      /\ last' = Outcome(op, incident_id, r.status = 204,
                         IF r.status = 204 THEN "" ELSE NotFoundErr, NoKw, -1, "", "")
      /\ gone' = IF r.status = 204 THEN gone \cup {incident_id} ELSE gone
      /\ gen' = Touch(gen, r.server # server)
      /\ UNCHANGED res

\* Variant of Delete: it calls _get where _delete is meant.
DeleteCallsGet(incident_id) ==
  LET r == ServerGet(server, incident_id)
  IN  /\ wire' = <<Request("GET", incident_id, NoBody, 0, 0)>>
      /\ last' = Outcome("delete", incident_id, r.status = 200,
                         IF r.status = 200 THEN "" ELSE NotFoundErr, NoKw, -1, "", "")
      /\ gone' = IF r.status = 200 THEN gone \cup {incident_id} ELSE gone
      /\ UNCHANGED <<server, res, gen>>

Delete(incident_id) == DeleteAs("delete", incident_id)

\* Variant of Count: it counts the rows of the page it fetched.
CountFirstPage ==
  /\ wire' = <<CountRequest>>
  /\ last' = Outcome("count", 0, TRUE, "", NoKw, Len(ServerList(server, 1, 1).data), "", "")
  /\ UNCHANGED <<server, res, gen, gone>>

\* IncidentManager.count()
Count ==
  /\ wire' = <<CountRequest>>
  /\ last' = Outcome("count", 0, TRUE, "", NoKw, ManagerCount(server), "", "")
  /\ UNCHANGED <<server, res, gen, gone>>

\* incident.<field> = value on the resource the caller holds.
Set(field, value) ==
  /\ res.id # 0
  /\ res' = Setter(res, field, value)
  /\ last' = Outcome("set", res.id, TRUE, "", NoKw, -1, field, value)
  /\ UNCHANGED <<server, wire, gen, gone>>

\* incident.update() on the resource the caller holds.
ResUpdate ==
  /\ res.id # 0
  /\ UpdateAs("res_update", res.id, KwFromAttrs(res))

\* incident.delete() on the resource the caller holds.
ResDelete ==
  /\ res.id # 0
  /\ DeleteAs("res_delete", res.id)

\* IncidentManager.list(page, per_page): builds the generator, sends nothing
\* (0 stands for a parameter the caller leaves out).
List(page, per_page) ==
  LET p == ListParams(page, per_page)
  IN  /\ gen' = [NoGen EXCEPT !.state = "new", !.asked = <<page, per_page>>,
                              !.page = p.page, !.per_page = p.per_page]
      /\ wire' = <<>>
      /\ last' = Outcome("list", 0, TRUE, "", NoKw, -1, "", "")
      /\ UNCHANGED <<server, res, gone>>

\* Manager._list_paginated resumed by one next(): it runs to its next yield,
\* to its end, or (a start page past the last one) past MaxPage.
RECURSIVE Resume(_, _, _)
Resume(srv, g, reqs) ==
  LET Fetch(pg) ==
        LET env == ServerList(srv, pg, g.per_page)
        IN  Resume(srv,
                   [g EXCEPT !.state = "run", !.page = pg, !.cur = env.current_page,
                             !.total_pages = env.total_pages, !.buf = env.data],
                   Append(reqs, Request("GET", 0, NoBody, pg, g.per_page)))
  IN  IF g.state = "new" THEN Fetch(g.page)
      ELSE IF g.buf # <<>>
      THEN [gen |-> [g EXCEPT !.out = Append(@, Head(g.buf)), !.buf = Tail(g.buf)],
            reqs |-> reqs, yielded |-> Head(g.buf)]
      ELSE IF g.cur = g.total_pages
      THEN [gen |-> [g EXCEPT !.state = "done"], reqs |-> reqs, yielded |-> 0]
      ELSE IF g.page + 1 > MaxPage
      THEN [gen |-> [g EXCEPT !.state = "cut"], reqs |-> reqs, yielded |-> 0]
      ELSE Fetch(g.page + 1)

\* next() on the generator list() returned.
GenNext ==
  /\ gen.state \in {"new", "run"}
  /\ LET r == Resume(server, gen, <<>>)
     IN  /\ gen' = r.gen
         /\ wire' = r.reqs
         /\ last' = Outcome("next", r.yielded, r.yielded # 0,
                            IF r.yielded # 0 THEN "" ELSE "StopIteration", NoKw, -1, "", "")
  /\ UNCHANGED <<server, res, gone>>

\* ------------------------------------------------------------ inputs

Kw(name, message, status, visible, notify, component_id) ==
  [NoKw EXCEPT !["name"] = name, !["message"] = message, !["status"] = status,
               !["visible"] = visible, !["notify"] = notify,
               !["component_id"] = component_id]

\* Keywords of the create() calls under Spec.
CreateKws ==
  {Kw(n, "m1", "i1", v, y, "i7") :
     n \in {"n1", "n2"}, v \in {Unset, PyTrue, PyFalse}, y \in {Unset, PyTrue, PyFalse}}

\* Keywords of the update() calls under Spec.
UpdateKws ==
  {Kw(n, "m1", "i1", v, y, Unset) :
     n \in {Unset, "n1", "n2"}, v \in {Unset, PyTrue, PyFalse},
     y \in {Unset, PyTrue, PyFalse}}

\* Keywords of the create() calls under SpecRes.
ResCreateKws ==
  {Kw("n1", "m1", "i1", v, y, "i7") : v \in {Unset, PyFalse}, y \in {Unset, PyFalse}}

\* The assignments to a held resource's properties under SpecRes.
SetterInputs ==
  {<<"name", "n1">>, <<"name", "n2">>, <<"message", "m1">>, <<"status", "i1">>,
   <<"visible", PyTrue>>, <<"visible", PyFalse>>, <<"notify", PyTrue>>,
   <<"notify", PyFalse>>, <<"component_id", "i7">>}

\* The one create() call of the lifecycle and listing runs.
PlainKw == Kw("n1", "m1", "i1", Unset, Unset, Unset)

\* Every combination of passed / not passed / None / value for create().
FullCreateKws ==
  [name : {"n1"}, message : {"m1"}, status : {"i1"},
   visible : {Unset, PyTrue, PyFalse},
   notify : {Unset, PyFalse, None},
   component_id : {Unset, "i7"}, component_status : {Unset, "i4"},
   created_at : {Unset, "t0"}, template : {Unset, "slug"},
   template_vars : {Unset, "vars0"}]

\* Every combination of passed / not passed / None / value for update().
FullUpdateKws ==
  [name : {Unset, "n2"}, message : {Unset, "m1"}, status : {Unset, "i1"},
   visible : {Unset, PyTrue, PyFalse},
   notify : {Unset, PyTrue, PyFalse, None},
   component_id : {Unset, "i7"}, component_status : {Unset, "i4"},
   created_at : {Unset, "t0"}, template : {Unset, "slug"},
   template_vars : {Unset, "vars0"}]

\* ------------------------------------------------------------ specifications

\* Field-level behaviour of the manager: create / update / get / delete with
\* varying keywords.
Next ==
  \/ \E kw \in CreateKws : Create(kw, MaxId)
  \/ \E id \in 1..MaxId, kw \in UpdateKws : Update(id, kw)
  \/ \E id \in 1..MaxId : Get(id)
  \/ \E id \in 1..MaxId : Delete(id)

Spec == Init /\ [][Next]_vars

\* The resource a caller holds: fetched or created, assigned to, then updated
\* or deleted through its own methods.
NextRes ==
  \/ \E kw \in ResCreateKws : Create(kw, MaxId)
  \/ \E id \in 1..MaxId : Get(id)
  \/ \E fv \in SetterInputs : Set(fv[1], fv[2])
  \/ ResUpdate
  \/ ResDelete

SpecRes == Init /\ [][NextRes]_vars

\* Lifecycle and listing: incidents come and go while a listing is drained.
NextList ==
  \/ Create(PlainKw, MaxListId)
  \/ \E id \in 1..MaxListId : Get(id)
  \/ \E id \in 1..MaxListId : Delete(id)
  \/ Count
  \/ \E page \in 1..2, per_page \in 0..2 : List(page, per_page)
  \/ GenNext

SpecList == Init /\ [][NextList]_vars

\* Request bodies: a first call that is a create() or an update() of the
\* missing incident 1, and an update() after the create(), over every
\* argument combination.
NextArgs ==
  \/ last.op = "init" /\ \E kw \in FullCreateKws : Create(kw, MaxId)
  \/ last.op # "update" /\ \E kw \in FullUpdateKws : Update(1, kw)

SpecArgs == Init /\ [][NextArgs]_vars

\* ------------------------------------------------------------ properties

\* The ids of pages 1..k of a listing with per_page n, in the order served.
RECURSIVE PagesUpTo(_, _, _)
PagesUpTo(srv, k, n) ==
  IF k = 0 THEN <<>> ELSE PagesUpTo(srv, k - 1, n) \o ServerList(srv, k, n).data

\* A required parameter of the most recent update() was absent.
LastMissesRequired == \E k \in RequiredNames : last.kw[k] \in {Unset, None}

\* C1 (as amended): an update() with name, message, status or visible absent
\* fails with ValueError and has sent no request when it fails, whatever the
\* other arguments are and whether or not incident 1 exists.
C1_UpdateGuardRaisesValueError ==
  (last.op = "update" /\ LastMissesRequired)
    => (~last.ok /\ last.err = "ValueError" /\ wire = <<>>)

\* C1 as stated: the failure is a ValidationError.
C1_UpdateGuardRaisesValidationError ==
  (last.op = "update" /\ LastMissesRequired)
    => (~last.ok /\ last.err = "ValidationError" /\ wire = <<>>)

\* An update() of the existing incident 1 that passes everything but visible
\* has failed without a request.
C1_Witness ==
  /\ last.op = "update" /\ ~last.ok /\ wire = <<>>
  /\ last.kw["visible"] = Unset
  /\ \A k \in ArgNames \ {"visible"} : last.kw[k] \notin {Unset, None}
  /\ Exists(server, 1)

\* The body of the one request the most recent call sent.
LastBody == wire[1].body

\* What an argument value looks like in a request body: visible and notify as
\* 1 / 0, anything else as passed.
OnWire(k, v) == IF k \in {"visible", "notify"} THEN (IF Truthy(v) THEN "i1" ELSE "i0") ELSE v

\* C8: the body create() POSTs and update() PUTs holds no None; an optional
\* argument left as None has no key, and an argument given a value has its key
\* with that value.
C8_BodyHasNoNullFields ==
  (last.op \in {"create", "update"} /\ Len(wire) = 1)
    => /\ wire[1].method = (IF last.op = "create" THEN "POST" ELSE "PUT")
       /\ \A key \in DOMAIN LastBody : LastBody[key] # None
       /\ \A k \in ArgNames :
            IF last.kw[k] \in {Unset, None}
            THEN k \in {"visible", "notify"} \/ PayloadKey(k) \notin DOMAIN LastBody
            ELSE /\ PayloadKey(k) \in DOMAIN LastBody
                 /\ LastBody[PayloadKey(k)] = OnWire(k, last.kw[k])

\* A create() that passed template and template_vars but no component_id.
C8_Witness ==
  /\ last.op = "create" /\ Len(wire) = 1
  /\ last.kw["component_id"] = Unset /\ "component_id" \notin DOMAIN LastBody
  /\ last.kw["template"] = "slug" /\ "template" \in DOMAIN LastBody
  /\ last.kw["template_vars"] = "vars0" /\ LastBody["vars"] = "vars0"

\* C10: an update() that passes its guard sends one PUT whose body has name,
\* message, status, visible and notify, the last two as 0 or 1; notify is 1
\* when the caller did not pass it and 0 only when a falsy value was passed.
C10_UpdateAlwaysSendsNotify ==
  (last.op = "update" /\ ~LastMissesRequired)
    => /\ Len(wire) = 1 /\ wire[1].method = "PUT"
       /\ {"name", "message", "status", "visible", "notify"} \subseteq DOMAIN LastBody
       /\ LastBody["visible"] \in {"i0", "i1"}
       /\ LastBody["notify"] \in {"i0", "i1"}
       /\ last.kw["notify"] = Unset => LastBody["notify"] = "i1"
       /\ LastBody["notify"] = "i0" => last.kw["notify"] \in {PyFalse, None}

\* An update() that did not mention notify asked for a notification.
C10_Witness ==
  /\ last.op = "update" /\ last.ok /\ last.kw["notify"] = Unset
  /\ Len(wire) = 1 /\ LastBody["notify"] = "i1"

\* The Python bool a boolean keyword was passed as, on the wire.
WireBool(b) == IF b = PyTrue THEN "i1" ELSE "i0"

\* C5 as stated: a boolean passed as visible or notify to a create() or
\* update() that succeeds goes on the wire as 1 / 0, and the accessor of the
\* incident fetched right after returns that same boolean.
C5_BooleanRoundTrip ==
  [][ (/\ last.op \in {"create", "update"} /\ last.ok
       /\ last'.op = "get" /\ last'.ok /\ last'.id = last.id)
      => \A f \in {"visible", "notify"} :
           last.kw[f] \in {PyTrue, PyFalse}
             => /\ wire[1].body[f] = WireBool(last.kw[f])
                /\ Getter(res', f) = last.kw[f] ]_vars

\* C6: an assignment to a property of a held incident sends nothing and leaves
\* the server as it is, the property's getter returns the assigned value, and
\* a stored incident changes only in an update or a delete.
C6_SettersAreLocal ==
  [][ /\ last'.op = "set"
        => /\ server' = server
           /\ wire' = wire
           /\ Getter(res', last'.field) = last'.value
      /\ \A i \in 1..Len(server) :
           server'[i] # server[i]
             => last'.op \in {"update", "res_update", "delete", "res_delete"} ]_vars

\* The held incident says 'n2' for name while the stored one still says 'n1'.
C6_Witness ==
  /\ last.op = "set" /\ last.field = "name" /\ last.value = "n2"
  /\ Getter(res, "name") = "n2"
  /\ Exists(server, res.id) /\ server[res.id].attrs["name"] = "n1"

\* C7 as stated: an update() that returns leaves every field it specified at
\* the new value and every field it did not specify at the value stored before,
\* in the returned resource and on the server.
C7_UpdateKeepsUnspecified ==
  [][ (last'.op \in {"update", "res_update"} /\ last'.ok)
      => \A f \in EntityFields :
           IF last'.kw[f] \in {Unset, None}
           THEN /\ server'[last'.id].attrs[f] = server[last'.id].attrs[f]
                /\ res'.attrs[f] = server[last'.id].attrs[f]
           ELSE /\ server'[last'.id].attrs[f] = OnWire(f, last'.kw[f])
                /\ PyEq(Getter(res', f), last'.kw[f]) ]_vars

\* A listing asked for as list(page=1, per_page=N) over a collection that has
\* not changed since.
CleanListing == gen.asked[1] = 1 /\ gen.asked[2] >= 1 /\ ~gen.dirty

\* C2: draining list(page=1, per_page=N) over an unchanging collection emits
\* the pages in order, each entity once: what is emitted and buffered is
\* exactly pages 1..k, page k is requested only when pages 1..k-1 are out, no
\* page past the last is requested, and the listing ends having emitted every
\* live incident once, with current_page = total_pages.
C2_ListEmitsEachOnceInOrder ==
  (CleanListing /\ gen.state \in {"run", "done"})
    => LET n   == gen.asked[2]
           all == LiveIds(server, Len(server))
       IN  /\ gen.out \o gen.buf = PagesUpTo(server, gen.page, n)
           /\ Len(gen.out) >= Len(PagesUpTo(server, gen.page - 1, n))
           /\ gen.page <= LastPage(Len(all), n)
           /\ \A i, j \in 1..Len(gen.out) : i # j => gen.out[i] # gen.out[j]
           /\ gen.state = "done"
                => /\ gen.out = all
                   /\ gen.buf = <<>>
                   /\ gen.cur = gen.total_pages
                   /\ gen.page = LastPage(Len(all), n)

\* Three incidents, one of them deleted before the listing, drained two per page.
C2_Witness ==
  /\ CleanListing /\ gen.state = "done" /\ gen.asked[2] = 2
  /\ gen.out = <<1, 3>> /\ Len(server) = 3

\* C3: count() returns the number of incidents a full drain of list() emitted
\* from the same collection, the empty collection included.
C3_CountEqualsDrainedList ==
  (/\ last.op = "count" /\ gen.state = "done"
   /\ gen.asked[1] = 1 /\ ~gen.dirty)
    => last.count = Len(gen.out)

\* Every incident was deleted; the listing drained to nothing and count() is 0.
C3_Witness ==
  /\ last.op = "count" /\ last.count = 0
  /\ gen.state = "done" /\ ~gen.dirty /\ gen.out = <<>>
  /\ Len(server) >= 2

\* C4 (as amended): once delete(id) has succeeded, every later get(id) and
\* delete(id) fails with the HTTP client's error for the 404.
C4_DeletedIsTerminal ==
  [][ (last'.op \in {"get", "delete"} /\ last'.id \in gone)
      => (~last'.ok /\ last'.err = "HttpError") ]_vars

\* C4 as stated: the failure is a NotFoundError.
C4_DeletedRaisesNotFoundError ==
  [][ (last'.op \in {"get", "delete"} /\ last'.id \in gone)
      => (~last'.ok /\ last'.err = "NotFoundError") ]_vars

\* A get of incident 1 fails after its delete, with two incidents created since.
C4_Witness ==
  /\ last.op = "get" /\ last.id = 1 /\ 1 \in gone /\ ~last.ok
  /\ Len(server) = 3 /\ Exists(server, 2)

\* C9: a delete that succeeds right after count() returned c leaves a
\* collection whose count() is c - 1, and count() is at least 1 right after a
\* create.
C9_DeleteLowersCountByOne ==
  /\ (last.op = "delete" /\ last.ok /\ last.prev_count >= 0)
       => ManagerCount(server) = last.prev_count - 1
  /\ (last.op = "create" /\ last.ok) => ManagerCount(server) >= 1

\* count() returned 2 and the delete after it left one incident.
C9_Witness ==
  /\ last.op = "delete" /\ last.ok /\ last.prev_count = 2
  /\ ManagerCount(server) = 1

====
